---- MODULE Spec2Model ----
(***************************************************************************)
(* Model of the PDF form-field extraction pipeline of va_forms_scraper.py  *)
(* (VAFormsScraper.extract_pdf_form_fields and the four extraction         *)
(* methods it calls), and of process_form_detail_page, which runs it on    *)
(* each PDF a form page links to.  Further sections model the scripts      *)
(* around the scraper, each with its own specification: the processing     *)
(* loop of summarize_va_forms.py, clear_upstash_cache.main,                *)
(* fetch_all_forms, and va_forms.json between save_results and its         *)
(* readers with upload_va_forms.main.                                      *)
(*                                                                         *)
(* A document is modelled by what the readers can see in it: its form      *)
(* fields (each possibly listed in the /AcroForm dictionary, possibly      *)
(* carrying a page widget), its page text as a sequence of word tokens,    *)
(* and the faults the readers hit on it.  Strings of the program are TLA+  *)
(* strings; an optional attribute is a sequence of length 0 or 1.          *)
(***************************************************************************)
EXTENDS Integers, Sequences, FiniteSets, TLC

\* ------------------------------------------------------------------------
\* Bounds of the model
\* ------------------------------------------------------------------------
MaxFields == 2      \* form fields per document
MaxLines == 2       \* label lines in the page text
MaxMatches == 11    \* longest run of checkbox glyphs / Yes..No pairs
MaxPdfs == 2        \* PDF links on one form page
MaxEntries == 2     \* entries of va_forms.json
MaxKeys == 3        \* keys in the cache
MaxPages == 3       \* pages requested from the forms API

\* ------------------------------------------------------------------------
\* Generic helpers
\* ------------------------------------------------------------------------
\* dict.get(key, default) on an optional attribute
Get(opt, default) == IF opt = <<>> THEN default ELSE opt[1]

\* int & 2 as a truth value
Bit2(n) == (n \div 2) % 2 = 1

SeqsUpTo(S, n) == UNION {[1..k -> S] : k \in 0..n}

RECURSIVE Rep(_, _)
Rep(s, n) == IF n = 0 THEN <<>> ELSE s \o Rep(s, n - 1)

RECURSIVE Flatten(_)
Flatten(ss) == IF ss = <<>> THEN <<>> ELSE Head(ss) \o Flatten(Tail(ss))

Desc(n, t, r) == [name |-> n, type |-> t, required |-> r]

\* ------------------------------------------------------------------------
\* Documents
\* ------------------------------------------------------------------------
\* Kinds of form field a PDF can hold.  PyPDF2 reads the /FT entry of the
\* field object; PyMuPDF reports the widget type it derives from /FT and
\* the button/choice bits of the field ("untyped": no /FT entry).
Kinds == {"text", "listbox", "combobox", "checkbox", "radio", "pushbutton",
          "signature", "untyped"}

FT(kind) ==
    CASE kind = "text" -> <<"/Tx">>
      [] kind \in {"listbox", "combobox"} -> <<"/Ch">>
      [] kind \in {"checkbox", "radio", "pushbutton"} -> <<"/Btn">>
      [] kind = "signature" -> <<"/Sig">>
      [] OTHER -> <<>>

WidgetType(kind) ==
    CASE kind = "text" -> "PDF_WIDGET_TYPE_TEXT"
      [] kind = "listbox" -> "PDF_WIDGET_TYPE_LISTBOX"
      [] kind = "combobox" -> "PDF_WIDGET_TYPE_COMBOBOX"
      [] kind = "checkbox" -> "PDF_WIDGET_TYPE_CHECKBOX"
      [] kind = "radio" -> "PDF_WIDGET_TYPE_RADIOBUTTON"
      [] kind = "pushbutton" -> "PDF_WIDGET_TYPE_BUTTON"
      [] kind = "signature" -> "PDF_WIDGET_TYPE_SIGNATURE"
      [] OTHER -> "PDF_WIDGET_TYPE_UNKNOWN"

\* T: the field's name (/T, widget.field_name), absent for a nameless field.
\* Ff: the low bits of the field flags (1 = read-only, 2 = required),
\* absent when the field has no /Ff entry.
OptNames == {<<>>, <<"ssn">>, <<"signature">>}
FfValues == {<<>>, <<1>>, <<2>>, <<3>>}

AllFields ==
    {f \in [T : OptNames, kind : Kinds, Ff : FfValues,
            inDict : BOOLEAN, hasWidget : BOOLEAN] : f.inDict \/ f.hasWidget}

SsnField == [T |-> <<"ssn">>, kind |-> "text", Ff |-> <<2>>,
             inDict |-> TRUE, hasWidget |-> TRUE]
SignatureField == [T |-> <<"signature">>, kind |-> "signature", Ff |-> <<>>,
                   inDict |-> TRUE, hasWidget |-> TRUE]

Differ(f, g) ==
    (IF f.T = g.T THEN 0 ELSE 1) + (IF f.kind = g.kind THEN 0 ELSE 1)
    + (IF f.Ff = g.Ff THEN 0 ELSE 1)
    + (IF f.inDict = g.inDict /\ f.hasWidget = g.hasWidget THEN 0 ELSE 1)

\* The fields documents are built from: the two fields of the reference
\* form and every field that differs from one of them in one attribute.
FieldPool ==
    {f \in AllFields : \E b \in {SsnField, SignatureField} : Differ(f, b) <= 1}

\* The fields used together with reader faults.
FaultPool ==
    {SsnField, SignatureField, [SsnField EXCEPT !.Ff = <<>>],
     [SsnField EXCEPT !.kind = "radio"]}

DictFields(d) == SelectSeq(d, LAMBDA f : f.inDict)
Widgets(d) == SelectSeq(d, LAMBDA f : f.hasWidget)

\* ------------------------------------------------------------------------
\* Method 1: extract_pdf_form_fields_pypdf2
\* ------------------------------------------------------------------------
Pypdf2TypeMapping(ft) ==
    CASE ft = "/Tx" -> "text"
      [] ft = "/Ch" -> "select"
      [] ft = "/Btn" -> "checkbox"
      [] ft = "/Sig" -> "signature"
      [] OTHER -> "text"

\* (variant: any /Ff entry counts as required)
Pypdf2RequiredAnyFlag(f) == f.Ff # <<>>

Pypdf2Required(f) == f.Ff # <<>> /\ Bit2(f.Ff[1])

Pypdf2Field(f) ==
    Desc(Get(f.T, "unknown"), Pypdf2TypeMapping(Get(FT(f.kind), "/Tx")),
         Pypdf2Required(f))

RECURSIVE Pypdf2Loop(_, _)
Pypdf2Loop(fs, acc) ==
    IF fs = <<>> THEN acc
    ELSE Pypdf2Loop(Tail(fs), Append(acc, Pypdf2Field(Head(fs))))

\* ------------------------------------------------------------------------
\* Method 2: extract_pdf_form_fields_mupdf
\* ------------------------------------------------------------------------
\* (variant: the push-button row carries a tag of its own)
MupdfTypeMappingPushbutton(wt) ==
    CASE wt = "PDF_WIDGET_TYPE_TEXT" -> "text"
      [] wt = "PDF_WIDGET_TYPE_CHECKBOX" -> "checkbox"
      [] wt = "PDF_WIDGET_TYPE_RADIOBUTTON" -> "radio"
      [] wt = "PDF_WIDGET_TYPE_LISTBOX" -> "select"
      [] wt = "PDF_WIDGET_TYPE_COMBOBOX" -> "select"
      [] wt = "PDF_WIDGET_TYPE_SIGNATURE" -> "signature"
      [] wt = "PDF_WIDGET_TYPE_BUTTON" -> "pushbutton"
      [] OTHER -> "text"

MupdfTypeMapping(wt) ==
    CASE wt = "PDF_WIDGET_TYPE_TEXT" -> "text"
      [] wt = "PDF_WIDGET_TYPE_CHECKBOX" -> "checkbox"
      [] wt = "PDF_WIDGET_TYPE_RADIOBUTTON" -> "radio"
      [] wt = "PDF_WIDGET_TYPE_LISTBOX" -> "select"
      [] wt = "PDF_WIDGET_TYPE_COMBOBOX" -> "select"
      [] wt = "PDF_WIDGET_TYPE_SIGNATURE" -> "signature"
      [] wt = "PDF_WIDGET_TYPE_BUTTON" -> "button"
      [] OTHER -> "text"

\* widget.field_flags is 0 when the field has no /Ff entry
MupdfRequired(f) == Bit2(Get(f.Ff, 0))

MupdfField(f, built) ==
    Desc(Get(f.T, "field_" \o ToString(Len(built))),
         MupdfTypeMapping(WidgetType(f.kind)), MupdfRequired(f))

RECURSIVE MupdfLoop(_, _)
MupdfLoop(ws, acc) ==
    IF ws = <<>> THEN acc
    ELSE MupdfLoop(Tail(ws), Append(acc, MupdfField(Head(ws), acc)))

\* ------------------------------------------------------------------------
\* Method 3: extract_pdf_form_fields_pdfform
\* ------------------------------------------------------------------------
\* pdfform.read_pdf_fields returns a dict keyed by field name: one entry per
\* distinct name of the form dictionary, in order of first appearance.
RECURSIVE PdfformRead(_, _)
PdfformRead(fs, keys) ==
    IF fs = <<>> THEN keys
    ELSE LET n == Head(fs).T
         IN  PdfformRead(Tail(fs),
                 IF n = <<>> \/ (\E i \in 1..Len(keys) : keys[i] = n[1])
                 THEN keys ELSE Append(keys, n[1]))

RECURSIVE PdfformLoop(_, _)
PdfformLoop(keys, acc) ==
    IF keys = <<>> THEN acc
    ELSE PdfformLoop(Tail(keys), Append(acc, Desc(Head(keys), "text", FALSE)))

\* ------------------------------------------------------------------------
\* Page text and regular expressions (word-token granularity)
\* ------------------------------------------------------------------------
\* The page text is a sequence of word tokens; NL is the line break.  A
\* regular expression is a sequence of items: a set of alternative literal
\* tokens, or Gap for the lazy ".*?" (any tokens but the line break).
NL == "\n"
Gap == {".*?"}
Glyphs == {"BALLOT_BOX", "WHITE_SQUARE", "[ ]"}

\* str.lower() on the tokens that carry upper-case letters
LowerTable ==
    [w \in {"Social", "Security", "Number", "First", "Name", "Last", "Middle",
            "Initial", "Date", "Birth", "Address", "Phone", "Email",
            "Signature", "Veteran", "ID", "Service", "Yes", "No",
            "FIRST", "NAME", "DATE"} |->
        CASE w = "Social" -> "social" [] w = "Security" -> "security"
          [] w = "Number" -> "number" [] w \in {"First", "FIRST"} -> "first"
          [] w \in {"Name", "NAME"} -> "name" [] w = "Last" -> "last"
          [] w = "Middle" -> "middle" [] w = "Initial" -> "initial"
          [] w \in {"Date", "DATE"} -> "date" [] w = "Birth" -> "birth"
          [] w = "Address" -> "address" [] w = "Phone" -> "phone"
          [] w = "Email" -> "email" [] w = "Signature" -> "signature"
          [] w = "Veteran" -> "veteran" [] w = "ID" -> "id"
          [] w = "Service" -> "service" [] w = "Yes" -> "yes"
          [] w = "No" -> "no"]

Lower(w) == IF w \in DOMAIN LowerTable THEN LowerTable[w] ELSE w

LowerText(toks) == [i \in 1..Len(toks) |-> Lower(toks[i])]

\* one literal item against one token; ic is re.IGNORECASE
TokEq(tok, alts, ic) ==
    IF ic THEN \E a \in alts : Lower(a) = Lower(tok) ELSE tok \in alts

\* Backtracking match of pat[p..] at token i: the position after the match
\* (the first one the lazy search finds), or 0 when there is none.
RECURSIVE MatchEnd(_, _, _, _, _)
RECURSIVE GapScan(_, _, _, _, _)
MatchEnd(pat, toks, i, p, ic) ==
    IF p > Len(pat) THEN i
    ELSE IF pat[p] = Gap THEN GapScan(pat, toks, i, p, ic)
    ELSE IF i <= Len(toks) /\ TokEq(toks[i], pat[p], ic)
         THEN MatchEnd(pat, toks, i + 1, p + 1, ic)
         ELSE 0

GapScan(pat, toks, j, p, ic) ==
    LET r == MatchEnd(pat, toks, j, p + 1, ic)
    IN  IF r # 0 THEN r
        ELSE IF j <= Len(toks) /\ toks[j] # NL
             THEN GapScan(pat, toks, j + 1, p, ic)
             ELSE 0

\* re.search(pattern, text, flags) is not None
ReSearch(pat, toks, ic) ==
    \E i \in 1..Len(toks) : MatchEnd(pat, toks, i, 1, ic) # 0

\* re.findall(pattern, text): the start positions of the non-overlapping
\* matches, scanning left to right from token i
RECURSIVE ReFindall(_, _, _, _)
ReFindall(pat, toks, i, ic) ==
    IF i > Len(toks) THEN <<>>
    ELSE LET e == MatchEnd(pat, toks, i, 1, ic)
         IN  IF e = 0 THEN ReFindall(pat, toks, i + 1, ic)
             ELSE <<i>> \o ReFindall(pat, toks, IF e > i THEN e ELSE i + 1, ic)

\* ------------------------------------------------------------------------
\* Method 4: parse_pdf_text_for_fields
\* ------------------------------------------------------------------------
Row(pat, n, t, r) == [pattern |-> pat, name |-> n, type |-> t, required |-> r]

field_patterns ==
    << Row(<<{"Social"}, {"Security"}, {"Number"}, Gap, {":"}>>,
           "social_security_number", "text", TRUE),
       Row(<<{"First"}, {"Name"}, Gap, {":"}>>, "first_name", "text", TRUE),
       Row(<<{"Last"}, {"Name"}, Gap, {":"}>>, "last_name", "text", TRUE),
       Row(<<{"Middle"}, {"Initial"}, Gap, {":"}>>,
           "middle_initial", "text", FALSE),
       Row(<<{"Date"}, {"of"}, {"Birth"}, Gap, {":"}>>,
           "date_of_birth", "date", TRUE),
       Row(<<{"Address"}, Gap, {":"}>>, "address", "text", TRUE),
       Row(<<{"Phone"}, Gap, {":"}>>, "phone", "tel", FALSE),
       Row(<<{"Email"}, Gap, {":"}>>, "email", "email", FALSE),
       Row(<<{"Signature"}, Gap, {":"}>>, "signature", "text", TRUE),
       Row(<<{"Date"}, Gap, {":"}>>, "date", "date", FALSE),
       Row(<<{"Veteran"}, Gap, {"ID"}, Gap, {":"}>>,
           "veteran_id", "text", TRUE),
       Row(<<{"Service"}, Gap, {"Number"}, Gap, {":"}>>,
           "service_number", "text", TRUE) >>

checkbox_patterns ==
    << [pattern |-> <<Glyphs>>, type |-> "checkbox"],
       [pattern |-> <<{"Yes"}, Gap, {"No"}>>, type |-> "radio"] >>

\* matches[:10]
CheckboxLimit == 10

\* (variant: one descriptor per match of the pattern, as re.findall would give)
RECURSIVE PatternLoopPerMatch(_, _, _)
PatternLoopPerMatch(rows, text_lower, acc) ==
    IF rows = <<>> THEN acc
    ELSE LET r == Head(rows)
             n == Len(ReFindall(r.pattern, text_lower, 1, TRUE))
         IN  PatternLoopPerMatch(Tail(rows), text_lower,
                 acc \o [i \in 1..n |-> Desc(r.name, r.type, r.required)])

\* the loop over field_patterns: one descriptor per row whose pattern is
\* found in the lower-cased text
RECURSIVE PatternLoop(_, _, _)
PatternLoop(rows, text_lower, acc) ==
    IF rows = <<>> THEN acc
    ELSE LET r == Head(rows)
         IN  PatternLoop(Tail(rows), text_lower,
                 IF ReSearch(r.pattern, text_lower, TRUE)
                 THEN Append(acc, Desc(r.name, r.type, r.required))
                 ELSE acc)

\* for i, match in enumerate(matches[:10]): append checkbox_{i+1}
CheckboxMatches(matches, type) ==
    LET n == IF Len(matches) < CheckboxLimit THEN Len(matches)
             ELSE CheckboxLimit
    IN  [i \in 1..n |-> Desc("checkbox_" \o ToString(i), type, FALSE)]

RECURSIVE CheckboxLoop(_, _, _)
CheckboxLoop(pats, toks, acc) ==
    IF pats = <<>> THEN acc
    ELSE CheckboxLoop(Tail(pats), toks,
             acc \o CheckboxMatches(ReFindall(Head(pats).pattern, toks, 1, FALSE),
                                    Head(pats).type))

parse_pdf_text_for_fields(toks) ==
    CheckboxLoop(checkbox_patterns, toks,
                 PatternLoop(field_patterns, LowerText(toks), <<>>))

\* ------------------------------------------------------------------------
\* Page texts
\* ------------------------------------------------------------------------
LabelLines ==
    { <<"First", "Name", ":">>,
      <<"FIRST", "NAME">>,
      <<"Date", "of", "Birth", ":">>,
      <<"date", "of", "birth">>,
      <<"Email", "Address", ":">>,
      <<"Phone">>,
      <<":">>,
      <<"Veteran", "Service", "ID", "Number", ":">> }

GlyphRun(n) ==
    [i \in 1..n |-> CASE i % 3 = 1 -> "BALLOT_BOX"
                      [] i % 3 = 2 -> "WHITE_SQUARE"
                      [] OTHER -> "[ ]"]

YesNoRun(n) == Rep(<<"Yes", "or", "No">>, n)

TextOf(lines, g, y) ==
    Flatten([i \in 1..Len(lines) |-> lines[i] \o <<NL>>])
    \o GlyphRun(g) \o <<NL>> \o YesNoRun(y) \o <<NL>>

MatchCounts == {0, 1, CheckboxLimit, MaxMatches}

RichTexts ==
    {TextOf(ls, g, y) : ls \in SeqsUpTo(LabelLines, MaxLines),
                        g \in MatchCounts, y \in MatchCounts}

PlainTexts == {<<>>, <<"First", "Name", ":", NL, "BALLOT_BOX", NL>>}

\* ------------------------------------------------------------------------
\* State
\* ------------------------------------------------------------------------
VARIABLES
    doc,                \* the PDF at pdf_path: [form, acroForm, text]
    PDFFORM_AVAILABLE,  \* the optional pdfform import succeeded
    fault,              \* the faults the readers and unlink hit on this run
    pc,                 \* position in extract_pdf_form_fields
    fields,             \* the local list "fields"
    ran,                \* the methods invoked so far, in order
    out,                \* what each invoked method returned
    failed,             \* the methods that raised internally
    exc,                \* "none", "caught" (by the outer except), "pending"
    fileExists,         \* the file at pdf_path is still on disk
    unlinkAttempts,     \* calls of Path(pdf_path).unlink()
    unique_fields,      \* the list "unique_fields"
    outcome,            \* "running", "returned" or "raised"
    page,               \* the form page: [soup, html_fields, pdf_urls]
    ppc,                \* position in process_form_detail_page
    idx,                \* index of pdf_url in pdf_urls
    page_fields,        \* the local list "fields" of process_form_detail_page
    results,            \* per handled URL: what download and extraction gave
    leftover,           \* temporary files of earlier URLs still on disk
    record              \* what process_form_detail_page returned

\* summarize_va_forms.py, run twice over the same va_forms.json
VARIABLES
    va_forms,           \* the entries of va_forms.json: [id, form_name, pdf]
    start_id,           \* args.start_id: <<>> (None) or <<string>>
    skip,               \* the flag "skip"
    entry_no,           \* index of "entry" in va_forms
    spc,                \* position in the script
    run,                \* "first" or "second" run of the script
    files,              \* the summaries directory: set of [name, content]
    temps,              \* temporary PDFs on disk
    pdf_path,           \* <<>> (None) or <<"tmp">>
    considered,         \* entries of this run that passed the resume test
    last,               \* what the script did for the entry it reached last
    snapshot            \* the summaries directory after the first run

\* clear_upstash_cache.py
VARIABLES
    cache,              \* the keys stored in the Upstash cache
    configured,         \* both environment variables are set
    fetched,            \* the KEYS request succeeded
    keys,               \* the list "keys"
    key_no,             \* index of "k" in keys
    cpc,                \* position in main
    dels                \* the DEL requests issued: [key, path, ok]

\* va_forms_api_scraper.py
VARIABLES
    page_no,            \* the local "page" of fetch_all_forms
    all_forms,          \* the list "all_forms"
    fpc,                \* position in fetch_all_forms
    fetches             \* the requests made: [page, response]

\* va_forms.json between save_results and the scripts that read it;
\* upload_va_forms.py
VARIABLES
    forms_data,         \* self.forms_data of the scraper
    va_forms_json,      \* the content of va_forms.json
    saved,              \* save_results: "no", "saved" or "failed"
    loaded,             \* per reading script: how its load ended
    data,               \* the list "data" of upload_va_forms.main
    item_no,            \* index of "item" in data
    upc,                \* position in upload_va_forms.main
    tmp_files,          \* files created by download_pdf still on disk
    uploaded_ids        \* the list "uploaded_ids"

\* the state of process_form_detail_page
pageVars == <<page, ppc, idx, page_fields, results, leftover, record>>

\* the state of extract_pdf_form_fields and process_form_detail_page
scraperVars ==
    <<doc, PDFFORM_AVAILABLE, fault, pc, fields, ran, out, failed, exc,
      fileExists, unlinkAttempts, unique_fields, outcome, pageVars>>

\* the state of summarize_va_forms.py
summarizeVars ==
    <<va_forms, start_id, skip, entry_no, spc, run, files, temps, pdf_path,
      considered, last, snapshot>>

\* the state of clear_upstash_cache.main
clearVars == <<cache, configured, fetched, keys, key_no, cpc, dels>>

\* the state of fetch_all_forms
fetchVars == <<page_no, all_forms, fpc, fetches>>

\* the state of save_results, the loads and upload_va_forms.main
uploadVars ==
    <<forms_data, va_forms_json, saved, loaded, data, item_no, upc,
      tmp_files, uploaded_ids>>

\* the state of the scripts around the scraper
scriptVars == <<summarizeVars, clearVars, fetchVars, uploadVars>>

vars == <<scraperVars, scriptVars>>

\* summarize_va_forms.py is not running
NoSummarize ==
    /\ va_forms = <<>>
    /\ start_id = <<>>
    /\ skip = FALSE
    /\ entry_no = 0
    /\ spc = "none"
    /\ run = "first"
    /\ files = {}
    /\ temps = 0
    /\ pdf_path = <<>>
    /\ considered = {}
    /\ last = [entry |-> 0]
    /\ snapshot = {}

\* clear_upstash_cache.main is not running
NoClear ==
    /\ cache = {}
    /\ configured = FALSE
    /\ fetched = FALSE
    /\ keys = <<>>
    /\ key_no = 0
    /\ cpc = "none"
    /\ dels = <<>>

\* fetch_all_forms is not running
NoFetch ==
    /\ page_no = 0
    /\ all_forms = <<>>
    /\ fpc = "none"
    /\ fetches = <<>>

\* the scripts that read va_forms.json
Readers == {"summarize_va_forms", "upload_va_forms", "extract_5333"}

\* nothing is saved, loaded or uploaded
NoUpload ==
    /\ forms_data = <<>>
    /\ va_forms_json = [kind |-> "missing"]
    /\ saved = "no"
    /\ loaded = [c \in Readers |-> "not run"]
    /\ data = <<>>
    /\ item_no = 0
    /\ upc = "none"
    /\ tmp_files = 0
    /\ uploaded_ids = <<>>

\* no script around the scraper is running
NoScripts == NoSummarize /\ NoClear /\ NoFetch /\ NoUpload

Methods == {"pypdf2", "mupdf", "pdfform", "text"}

NoFaults == [pypdf2 |-> <<>>, mupdf |-> <<>>, pdfform |-> FALSE,
             pdfplumber |-> FALSE, unlink |-> FALSE]

\* what PyPDF2 iterates over: form_dict["/Fields"] when both keys exist
FormDictFields(d) ==
    IF d.acroForm = "fields" THEN DictFields(d.form) ELSE <<>>

\* A reader fault <<k>>: the method raises after it has built k descriptors
\* (k = 0 includes a file the reader cannot open).
FaultPoints(n) == {<<>>} \cup {<<k>> : k \in {j \in 0..n : j = 0 \/ j < n}}

Faults(d, avail) ==
    {f \in [pypdf2 : FaultPoints(Len(FormDictFields(d))),
            mupdf : FaultPoints(Len(Widgets(d.form))),
            pdfform : BOOLEAN, pdfplumber : BOOLEAN, unlink : BOOLEAN] :
        f.pdfform => avail}

AcroForms(form) ==
    IF DictFields(form) = <<>> THEN {"absent", "noFields", "fields"}
    ELSE {"fields"}

\* ------------------------------------------------------------------------
\* The extraction methods as called by extract_pdf_form_fields: the list a
\* method returns and whether it raised inside its own try block.
\* ------------------------------------------------------------------------
\* the entries a method's loop gets through before the fault raises
Reached(fs, flt) == IF flt = <<>> THEN fs ELSE SubSeq(fs, 1, flt[1])

\* (variant without the "/AcroForm" in ... test: the lookup raises KeyError
\* on a document that has no form dictionary)
extract_pdf_form_fields_pypdf2_NoKeyTest(d, flt) ==
    [fields |-> Pypdf2Loop(Reached(FormDictFields(d), flt), <<>>),
     raised |-> flt # <<>> \/ d.acroForm = "absent"]

\* fields = []; try: <loop> except Exception: <log>; return fields
extract_pdf_form_fields_pypdf2(d, flt) ==
    [fields |-> Pypdf2Loop(Reached(FormDictFields(d), flt), <<>>),
     raised |-> flt # <<>>]

extract_pdf_form_fields_mupdf(d, flt) ==
    [fields |-> MupdfLoop(Reached(Widgets(d.form), flt), <<>>),
     raised |-> flt # <<>>]

extract_pdf_form_fields_pdfform(d, flt) ==
    IF flt THEN [fields |-> <<>>, raised |-> TRUE]
    ELSE [fields |-> PdfformLoop(PdfformRead(FormDictFields(d), <<>>), <<>>),
          raised |-> FALSE]

\* (variant: the handler does not cover the exception the fallback raises)
OuterExceptMisses == FALSE

\* "except Exception" of extract_pdf_form_fields catches what the fallback
\* raises
OuterExceptCatches == TRUE

\* (variant: the key also holds the required flag)
FieldKeyWithRequired(f) ==
    f.name \o "_" \o f.type \o "_" \o ToString(f.required)

\* field_key = f"{name}_{type}"
FieldKey(f) == f.name \o "_" \o f.type

\* (variant: a dict keyed by field_key, where a later descriptor overwrites
\* the earlier one in place)
RECURSIVE DedupLoopLastWins(_, _, _)
DedupLoopLastWins(fs, seen, unique) ==
    IF fs = <<>> THEN unique
    ELSE LET k == FieldKey(Head(fs))
         IN  IF k \notin seen
             THEN DedupLoopLastWins(Tail(fs), seen \cup {k},
                                    Append(unique, Head(fs)))
             ELSE DedupLoopLastWins(Tail(fs), seen,
                      [i \in 1..Len(unique) |->
                          IF FieldKey(unique[i]) = k THEN Head(fs)
                          ELSE unique[i]])

\* the loop over fields with the set "seen"
RECURSIVE DedupLoop(_, _, _)
DedupLoop(fs, seen, unique) ==
    IF fs = <<>> THEN unique
    ELSE LET k == FieldKey(Head(fs))
         IN  IF k \notin seen
             THEN DedupLoop(Tail(fs), seen \cup {k}, Append(unique, Head(fs)))
             ELSE DedupLoop(Tail(fs), seen, unique)

\* ------------------------------------------------------------------------
\* Init: the documents and faults of one call
\* ------------------------------------------------------------------------
\* the locals of extract_pdf_form_fields at its entry
Locals ==
    /\ fields = <<>>
    /\ ran = <<>>
    /\ out = [m \in Methods |-> <<>>]
    /\ failed = {}
    /\ exc = "none"
    /\ fileExists = TRUE
    /\ unlinkAttempts = 0
    /\ unique_fields = <<>>
    /\ outcome = "running"

Start == pc = "pypdf2" /\ Locals

\* extract_pdf_form_fields called on its own, outside a form page
NoPage ==
    /\ page = [soup |-> FALSE, html_fields |-> <<>>, pdf_urls |-> <<>>]
    /\ ppc = "none"
    /\ idx = 0
    /\ page_fields = <<>>
    /\ results = <<>>
    /\ leftover = 0
    /\ record = [returned |-> FALSE]

\* forms of every shape, read without faults
InitForm ==
    /\ \E form \in SeqsUpTo(FieldPool, MaxFields) :
       \E a \in AcroForms(form) :
           doc = [form |-> form, acroForm |-> a, text |-> <<>>]
    /\ PDFFORM_AVAILABLE \in BOOLEAN
    /\ fault = NoFaults

\* reference forms under every combination of faults
InitFault ==
    /\ \E form \in SeqsUpTo(FaultPool, MaxFields) :
       \E t \in PlainTexts :
           doc = [form |-> form, acroForm |-> "fields", text |-> t]
    /\ PDFFORM_AVAILABLE \in BOOLEAN
    /\ fault \in Faults(doc, PDFFORM_AVAILABLE)

\* flat documents (no embedded form) with page text of every shape
InitText ==
    /\ \E t \in RichTexts :
           doc = [form |-> <<>>, acroForm |-> "absent", text |-> t]
    /\ PDFFORM_AVAILABLE \in BOOLEAN
    /\ fault = NoFaults

Init == Start /\ NoPage /\ NoScripts /\ (InitForm \/ InitFault \/ InitText)

\* ------------------------------------------------------------------------
\* extract_pdf_form_fields, one action per step of its body
\* ------------------------------------------------------------------------
Invoke(m, r) ==
    /\ ran' = Append(ran, m)
    /\ out' = [out EXCEPT ![m] = r.fields]
    /\ failed' = IF r.raised THEN failed \cup {m} ELSE failed

\* (variant: the fallback is not guarded by "if not fields")
AfterStructuredAlways(fs) == "fallback"

AfterStructured(fs) == IF fs = <<>> THEN "fallback" ELSE "cleanup"

\* (variant of Method 1 without its own try/except: a raise leaves the try
\* block of extract_pdf_form_fields for the outer except)
Pypdf2StepUnguarded ==
    /\ pc = "pypdf2"
    /\ LET r == extract_pdf_form_fields_pypdf2(doc, fault.pypdf2)
       IN  IF r.raised
           THEN /\ Invoke("pypdf2", [fields |-> <<>>, raised |-> TRUE])
                /\ exc' = "caught"
                /\ pc' = "cleanup"
                /\ UNCHANGED fields
           ELSE /\ fields' = fields \o r.fields
                /\ Invoke("pypdf2", r)
                /\ pc' = "mupdf"
                /\ UNCHANGED exc
    /\ UNCHANGED <<scriptVars, pageVars, doc, PDFFORM_AVAILABLE, fault, fileExists,
                   unlinkAttempts, unique_fields, outcome>>

\* Method 1
Pypdf2Step ==
    /\ pc = "pypdf2"
    /\ LET r == extract_pdf_form_fields_pypdf2(doc, fault.pypdf2)
       IN  /\ fields' = fields \o r.fields
           /\ Invoke("pypdf2", r)
    /\ pc' = "mupdf"
    /\ UNCHANGED <<scriptVars, pageVars, doc, PDFFORM_AVAILABLE, fault, exc, fileExists,
                   unlinkAttempts, unique_fields, outcome>>

\* (variant: Method 2 only as a fallback of Method 1)
MupdfStepAsFallback ==
    /\ pc = "mupdf"
    /\ IF fields # <<>>
       THEN UNCHANGED <<fields, ran, out, failed>>
       ELSE LET r == extract_pdf_form_fields_mupdf(doc, fault.mupdf)
            IN  /\ fields' = fields \o r.fields
                /\ Invoke("mupdf", r)
    /\ pc' = IF PDFFORM_AVAILABLE THEN "pdfform" ELSE AfterStructured(fields')
    /\ UNCHANGED <<scriptVars, pageVars, doc, PDFFORM_AVAILABLE, fault, exc, fileExists,
                   unlinkAttempts, unique_fields, outcome>>

\* Method 2, then the tests "if PDFFORM_AVAILABLE" and "if not fields"
MupdfStep ==
    /\ pc = "mupdf"
    /\ LET r == extract_pdf_form_fields_mupdf(doc, fault.mupdf)
       IN  /\ fields' = fields \o r.fields
           /\ Invoke("mupdf", r)
    /\ pc' = IF PDFFORM_AVAILABLE THEN "pdfform" ELSE AfterStructured(fields')
    /\ UNCHANGED <<scriptVars, pageVars, doc, PDFFORM_AVAILABLE, fault, exc, fileExists,
                   unlinkAttempts, unique_fields, outcome>>

\* Method 3, then the test "if not fields"
PdfformStep ==
    /\ pc = "pdfform"
    /\ LET r == extract_pdf_form_fields_pdfform(doc, fault.pdfform)
       IN  /\ fields' = fields \o r.fields
           /\ Invoke("pdfform", r)
    /\ pc' = AfterStructured(fields')
    /\ UNCHANGED <<scriptVars, pageVars, doc, PDFFORM_AVAILABLE, fault, exc, fileExists,
                   unlinkAttempts, unique_fields, outcome>>

\* Method 4: pdfplumber text, parse_pdf_text_for_fields; a raise leaves the
\* try block for the outer except
FallbackStep ==
    /\ pc = "fallback"
    /\ IF fault.pdfplumber
       THEN /\ Invoke("text", [fields |-> <<>>, raised |-> TRUE])
            /\ exc' = IF OuterExceptCatches THEN "caught" ELSE "pending"
            /\ UNCHANGED fields
       ELSE LET text_fields == parse_pdf_text_for_fields(doc.text)
            IN  /\ fields' = fields \o text_fields
                /\ Invoke("text", [fields |-> text_fields, raised |-> FALSE])
                /\ UNCHANGED exc
    /\ pc' = "cleanup"
    /\ UNCHANGED <<scriptVars, pageVars, doc, PDFFORM_AVAILABLE, fault, fileExists, unlinkAttempts,
                   unique_fields, outcome>>

\* (variant: the unlink is the last statement of the try block, not a
\* finally clause)
CleanupStepInTry ==
    /\ pc = "cleanup"
    /\ IF exc = "none"
       THEN /\ unlinkAttempts' = unlinkAttempts + 1
            /\ fileExists' = IF fault.unlink THEN fileExists ELSE FALSE
       ELSE UNCHANGED <<unlinkAttempts, fileExists>>
    /\ pc' = "dedup"
    /\ UNCHANGED <<scriptVars, pageVars, doc, PDFFORM_AVAILABLE, fault, fields, ran, out, failed,
                   exc, unique_fields, outcome>>

\* (variant: the unlink is not wrapped in try/except)
CleanupStepUnlinkRaises ==
    /\ pc = "cleanup"
    /\ unlinkAttempts' = unlinkAttempts + 1
    /\ fileExists' = IF fault.unlink THEN fileExists ELSE FALSE
    /\ IF exc = "pending" \/ fault.unlink
       THEN pc' = "done" /\ outcome' = "raised"
       ELSE pc' = "dedup" /\ UNCHANGED outcome
    /\ UNCHANGED <<scriptVars, pageVars, doc, PDFFORM_AVAILABLE, fault, fields, ran, out, failed,
                   exc, unique_fields>>

\* finally: Path(pdf_path).unlink() inside try/except Exception: pass
CleanupStep ==
    /\ pc = "cleanup"
    /\ unlinkAttempts' = unlinkAttempts + 1
    /\ fileExists' = IF fault.unlink THEN fileExists ELSE FALSE
    /\ IF exc = "pending"
       THEN pc' = "done" /\ outcome' = "raised"
       ELSE pc' = "dedup" /\ UNCHANGED outcome
    /\ UNCHANGED <<scriptVars, pageVars, doc, PDFFORM_AVAILABLE, fault, fields, ran, out, failed,
                   exc, unique_fields>>

\* the duplicate removal and "return unique_fields"
DedupStep ==
    /\ pc = "dedup"
    /\ unique_fields' = DedupLoop(fields, {}, <<>>)
    /\ outcome' = "returned"
    /\ pc' = "done"
    /\ UNCHANGED <<scriptVars, pageVars, doc, PDFFORM_AVAILABLE, fault, fields, ran, out, failed,
                   exc, fileExists, unlinkAttempts>>

Next ==
    \/ Pypdf2Step
    \/ MupdfStep
    \/ PdfformStep
    \/ FallbackStep
    \/ CleanupStep
    \/ DedupStep

Spec == Init /\ [][Next]_vars

\* ------------------------------------------------------------------------
\* process_form_detail_page: the HTML form of a page, then each PDF link
\* ------------------------------------------------------------------------
NoDoc == [form |-> <<>>, acroForm |-> "absent", text |-> <<>>]

\* every reader fails on the document: corrupted bytes
Corrupted(avail) ==
    [pypdf2 |-> <<0>>, mupdf |-> <<0>>, pdfform |-> avail,
     pdfplumber |-> TRUE, unlink |-> FALSE]

UnlinkFails == [NoFaults EXCEPT !.unlink = TRUE]

PageDocs ==
    {[form |-> <<>>, acroForm |-> "absent", text |-> t] : t \in PlainTexts}
    \cup {[form |-> f, acroForm |-> "fields", text |-> <<>>] :
              f \in {<<SsnField>>, <<SsnField, SignatureField>>}}

\* what one PDF link leads to: download_pdf returns None on a
\* requests.RequestException, else the path of a temporary copy
PdfLinks(avail) ==
    {[download |-> "RequestException", doc |-> NoDoc, fault |-> NoFaults]}
    \cup {[download |-> "ok", doc |-> d, fault |-> f] :
              d \in PageDocs, f \in {NoFaults, UnlinkFails, Corrupted(avail)}}

\* the descriptors parse_form_element builds for the inputs of an HTML form
HtmlForms == {<<>>, <<Desc("ssn", "text", TRUE)>>}

InitPage ==
    /\ PDFFORM_AVAILABLE \in BOOLEAN
    /\ \/ page = [soup |-> FALSE, html_fields |-> <<>>, pdf_urls |-> <<>>]
       \/ \E h \in HtmlForms :
          \E urls \in SeqsUpTo(PdfLinks(PDFFORM_AVAILABLE), MaxPdfs) :
              page = [soup |-> TRUE, html_fields |-> h, pdf_urls |-> urls]
    /\ ppc = "start"
    /\ idx = 0
    /\ page_fields = <<>>
    /\ results = <<>>
    /\ leftover = 0
    /\ record = [returned |-> FALSE]
    /\ doc = NoDoc
    /\ fault = NoFaults
    /\ pc = "idle"
    /\ Locals
    /\ NoScripts

\* get_page, the HTML form fields, find_pdf_links
GetPageStep ==
    /\ ppc = "start"
    /\ IF ~page.soup
       THEN /\ ppc' = "returned"
            /\ record' = [returned |-> TRUE, none |-> TRUE]
            /\ UNCHANGED <<idx, page_fields>>
       ELSE /\ ppc' = "loop"
            /\ idx' = 1
            /\ page_fields' = page.html_fields
            /\ UNCHANGED record
    /\ UNCHANGED <<scriptVars, page, results, leftover, doc, PDFFORM_AVAILABLE, fault, pc,
                   fields, ran, out, failed, exc, fileExists, unlinkAttempts,
                   unique_fields, outcome>>

\* variant: a failed download ends the loop
DownloadStepBreak ==
    /\ ppc = "loop"
    /\ idx <= Len(page.pdf_urls)
    /\ IF page.pdf_urls[idx].download = "ok"
       THEN /\ ppc' = "extracting"
            /\ doc' = page.pdf_urls[idx].doc
            /\ fault' = page.pdf_urls[idx].fault
            /\ pc' = "pypdf2"
            /\ fields' = <<>>
            /\ ran' = <<>>
            /\ out' = [m \in Methods |-> <<>>]
            /\ failed' = {}
            /\ exc' = "none"
            /\ fileExists' = TRUE
            /\ unlinkAttempts' = 0
            /\ unique_fields' = <<>>
            /\ outcome' = "running"
            /\ UNCHANGED <<idx, results>>
       ELSE /\ idx' = Len(page.pdf_urls) + 1
            /\ results' = Append(results, [downloaded |-> FALSE,
                                            unlinks |-> 0, fields |-> <<>>])
            /\ UNCHANGED <<ppc, doc, fault, pc, fields, ran, out, failed, exc,
                           fileExists, unlinkAttempts, unique_fields, outcome>>
    /\ UNCHANGED <<scriptVars, page, page_fields, leftover, record, PDFFORM_AVAILABLE>>

\* the next pdf_url: download_pdf, then extract_pdf_form_fields is entered
DownloadStep ==
    /\ ppc = "loop"
    /\ idx <= Len(page.pdf_urls)
    /\ IF page.pdf_urls[idx].download = "ok"
       THEN /\ ppc' = "extracting"
            /\ doc' = page.pdf_urls[idx].doc
            /\ fault' = page.pdf_urls[idx].fault
            /\ pc' = "pypdf2"
            /\ fields' = <<>>
            /\ ran' = <<>>
            /\ out' = [m \in Methods |-> <<>>]
            /\ failed' = {}
            /\ exc' = "none"
            /\ fileExists' = TRUE
            /\ unlinkAttempts' = 0
            /\ unique_fields' = <<>>
            /\ outcome' = "running"
            /\ UNCHANGED <<idx, results>>
       ELSE /\ idx' = idx + 1
            /\ results' = Append(results, [downloaded |-> FALSE,
                                            unlinks |-> 0, fields |-> <<>>])
            /\ UNCHANGED <<ppc, doc, fault, pc, fields, ran, out, failed, exc,
                           fileExists, unlinkAttempts, unique_fields, outcome>>
    /\ UNCHANGED <<scriptVars, page, page_fields, leftover, record, PDFFORM_AVAILABLE>>

\* variant: the loop goes on before the temporary file is deleted
ExtendStepBeforeCleanup ==
    /\ ppc = "extracting"
    /\ pc = "cleanup"
    /\ IF outcome = "running"
       THEN /\ ppc' = "loop"
            /\ idx' = idx + 1
            /\ page_fields' = page_fields \o unique_fields
            /\ results' = Append(results, [downloaded |-> TRUE,
                                            unlinks |-> unlinkAttempts,
                                            fields |-> unique_fields])
       ELSE /\ ppc' = "raised"
            /\ UNCHANGED <<idx, page_fields, results>>
    /\ leftover' = leftover + (IF fileExists THEN 1 ELSE 0)
    /\ pc' = "idle"
    /\ UNCHANGED <<scriptVars, page, record, doc, PDFFORM_AVAILABLE, fault, fields, ran,
                   out, failed, exc, fileExists, unlinkAttempts, unique_fields,
                   outcome>>

\* variant: duplicates are also removed across the HTML form and the PDFs
ExtendStepDedupAcross ==
    /\ ppc = "extracting"
    /\ pc = "done"
    /\ IF outcome = "returned"
       THEN /\ ppc' = "loop"
            /\ idx' = idx + 1
            /\ page_fields' = DedupLoop(page_fields \o unique_fields, {}, <<>>)
            /\ results' = Append(results, [downloaded |-> TRUE,
                                            unlinks |-> unlinkAttempts,
                                            fields |-> unique_fields])
       ELSE /\ ppc' = "raised"
            /\ UNCHANGED <<idx, page_fields, results>>
    /\ leftover' = leftover + (IF fileExists THEN 1 ELSE 0)
    /\ pc' = "idle"
    /\ UNCHANGED <<scriptVars, page, record, doc, PDFFORM_AVAILABLE, fault, fields, ran,
                   out, failed, exc, fileExists, unlinkAttempts, unique_fields,
                   outcome>>

\* extract_pdf_form_fields is back: fields.extend(pdf_fields), or its
\* exception leaves process_form_detail_page
ExtendStep ==
    /\ ppc = "extracting"
    /\ pc = "done"
    /\ IF outcome = "returned"
       THEN /\ ppc' = "loop"
            /\ idx' = idx + 1
            /\ page_fields' = page_fields \o unique_fields
            /\ results' = Append(results, [downloaded |-> TRUE,
                                            unlinks |-> unlinkAttempts,
                                            fields |-> unique_fields])
       ELSE /\ ppc' = "raised"
            /\ UNCHANGED <<idx, page_fields, results>>
    /\ leftover' = leftover + (IF fileExists THEN 1 ELSE 0)
    /\ pc' = "idle"
    /\ UNCHANGED <<scriptVars, page, record, doc, PDFFORM_AVAILABLE, fault, fields, ran,
                   out, failed, exc, fileExists, unlinkAttempts, unique_fields,
                   outcome>>

\* the loop is over: the record is returned
ReturnStep ==
    /\ ppc = "loop"
    /\ idx > Len(page.pdf_urls)
    /\ ppc' = "returned"
    /\ record' = [returned |-> TRUE, none |-> FALSE, fields |-> page_fields]
    /\ UNCHANGED <<scriptVars, page, idx, page_fields, results, leftover, doc,
                   PDFFORM_AVAILABLE, fault, pc, fields, ran, out, failed, exc,
                   fileExists, unlinkAttempts, unique_fields, outcome>>

NextPage ==
    \/ GetPageStep
    \/ DownloadStep
    \/ Pypdf2Step
    \/ MupdfStep
    \/ PdfformStep
    \/ FallbackStep
    \/ CleanupStep
    \/ DedupStep
    \/ ExtendStep
    \/ ReturnStep

SpecPage == InitPage /\ [][NextPage]_vars

\* ========================================================================
\* Properties
\* ========================================================================
Range(q) == {q[i] : i \in 1..Len(q)}

SamePair(a, b) == a.name = b.name /\ a.type = b.type

Count(q, P(_)) == Cardinality({i \in 1..Len(q) : P(q[i])})

MethodOrder == <<"pypdf2", "mupdf", "pdfform", "text">>

\* the methods were invoked in the fixed order, each at most once
RanInOrder == ran = SelectSeq(MethodOrder, LAMBDA m : m \in Range(ran))

\* the outputs of the methods that ran, concatenated in invocation order
Concatenation == Flatten([i \in 1..Len(ran) |-> out[ran[i]]])

\* the positions of c that hold the first descriptor of their (name, type)
FirstOfPair(c) ==
    {i \in 1..Len(c) : \A j \in 1..(i - 1) : ~SamePair(c[j], c[i])}

Kth(S, k) == CHOOSE i \in S : Cardinality({x \in S : x <= i}) = k

Returned == pc = "done" /\ outcome = "returned"

\* C1: the list returned by extract_pdf_form_fields holds no two descriptors
\* with the same (name, type) pair.
C1_NoDuplicatePairs ==
    Returned =>
        \A i, j \in 1..Len(unique_fields) :
            i < j => ~SamePair(unique_fields[i], unique_fields[j])

\* C1 witness: a call has returned at least two descriptors after a
\* descriptor with a repeated pair was dropped.
C1_Witness ==
    /\ Returned
    /\ Len(unique_fields) >= 2
    /\ Len(unique_fields) < Len(fields)

\* C2: the returned list is the concatenation of the outputs of the methods
\* that ran, in the order PyPDF2, PyMuPDF, pdfform, text fallback, reduced to
\* the first descriptor of every (name, type) pair, survivors in their
\* original order and with the first descriptor's required value.
C2_FirstOccurrencesInOrder ==
    Returned =>
        /\ RanInOrder
        /\ LET c == Concatenation
               S == FirstOfPair(c)
           IN  /\ Len(unique_fields) = Cardinality(S)
               /\ \A k \in 1..Len(unique_fields) :
                      unique_fields[k] = c[Kth(S, k)]

\* C2 witness: two methods contributed, and a later descriptor that repeats
\* an earlier pair with a different required value was dropped.
C2_Witness ==
    /\ Returned
    /\ Len(unique_fields) >= 2
    /\ Cardinality({m \in Methods : out[m] # <<>>}) >= 2
    /\ \E i, j \in 1..Len(Concatenation) :
           /\ i < j
           /\ SamePair(Concatenation[i], Concatenation[j])
           /\ Concatenation[i].required # Concatenation[j].required

\* The descriptors the two structured methods build for field i of the form.
Pypdf2DescOf(i) == Pypdf2Field(doc.form[i])
MupdfDescOf(i) ==
    MupdfLoop(Widgets(doc.form), <<>>)[Len(Widgets(SubSeq(doc.form, 1, i)))]

SeenByBoth(i) ==
    /\ doc.form[i].inDict /\ doc.form[i].hasWidget
    /\ doc.acroForm = "fields"
    /\ fault.pypdf2 = <<>> /\ fault.mupdf = <<>>

NamesGiven(i) ==
    (IF doc.form[i].inDict THEN {Pypdf2DescOf(i).name} ELSE {})
    \cup (IF doc.form[i].hasWidget THEN {MupdfDescOf(i).name} ELSE {})

\* C3: a named field discovered by both PyPDF2 and PyMuPDF (and whose name
\* no other field of the form carries) has exactly one descriptor in the
\* output of a call in which pdfform did not run, namely the PyPDF2 one,
\* whatever the type of the field.
C3_SharedFieldOnce ==
    (Returned /\ "pdfform" \notin Range(ran)) =>
        \A i \in 1..Len(doc.form) :
            (/\ SeenByBoth(i)
             /\ doc.form[i].T # <<>>
             /\ \A j \in 1..Len(doc.form) :
                    j # i => NamesGiven(j) \cap NamesGiven(i) = {})
            => SelectSeq(unique_fields, LAMBDA d : d.name \in NamesGiven(i))
                   = <<Pypdf2DescOf(i)>>

IsSynthetic(d) ==
    \E n \in 1..MaxMatches : d.name = "checkbox_" \o ToString(n)

\* C4: at most 10 synthetic descriptors (names checkbox_N) are in the result.
C4_AtMostTenSynthetic ==
    Returned => Count(unique_fields, IsSynthetic) <= CheckboxLimit

\* the label phrase of a table row: its literal words, adjacent
PhraseWords(r) == SelectSeq(r.pattern, LAMBDA it : it # Gap /\ it # {":"})

OccursAt(toks, r, i) ==
    LET w == PhraseWords(r)
    IN  /\ i + Len(w) - 1 <= Len(toks)
        /\ \A k \in 1..Len(w) :
               \E a \in w[k] : Lower(a) = Lower(toks[i + k - 1])

Occurrences(toks, r) == {i \in 1..Len(toks) : OccursAt(toks, r, i)}

\* a colon follows the occurrence at i on the same line
ColonOnLine(toks, r, i) ==
    LET from == i + Len(PhraseWords(r))
    IN  \E j \in from..Len(toks) :
            /\ toks[j] = ":"
            /\ \A k \in from..(j - 1) : toks[k] # NL

Rows == Range(field_patterns)

\* the fallback ran and parse_pdf_text_for_fields returned
TextParsed == "text" \in Range(ran) /\ "text" \notin failed

RowDescriptors(r) ==
    SelectSeq(out["text"], LAMBDA d : d.name = r.name)

FirstNameRow == field_patterns[2]
DateOfBirthRow == field_patterns[5]
DateRow == field_patterns[10]

\* C6: in a document with no embedded form, when every occurrence of "Date"
\* in the text starts a "Date of Birth", no (date, date, not required)
\* descriptor is produced; the text "First Name:" / "Date of Birth:" gives
\* exactly (first_name, text, required), (date_of_birth, date, required).
C6_OwnRowOnly ==
    (Returned /\ TextParsed /\ doc.form = <<>>) =>
        /\ Occurrences(doc.text, DateRow)
               \subseteq Occurrences(doc.text, DateOfBirthRow)
           => RowDescriptors(DateRow) = <<>>
        /\ doc.text = TextOf(<< <<"First", "Name", ":">>,
                               <<"Date", "of", "Birth", ":">> >>, 0, 0)
           => unique_fields = <<Desc("first_name", "text", TRUE),
                                Desc("date_of_birth", "date", TRUE)>>

\* C7: a method that raised internally contributes nothing to the merged
\* list.
C7_FailedMethodContributesNothing ==
    pc = "done" => \A m \in failed : out[m] = <<>>

Structured == {"pypdf2", "mupdf", "pdfform"}

\* C8: when a structured method fails, the call still invokes every later
\* method under its normal condition (PyMuPDF always, pdfform when it is
\* available, the text fallback when nothing was found) and returns a list.
C8_FailureDoesNotAbort ==
    (pc = "done" /\ failed \cap Structured # {}) =>
        /\ outcome = "returned"
        /\ RanInOrder
        /\ {"pypdf2", "mupdf"} \subseteq Range(ran)
        /\ "pdfform" \in Range(ran) <=> PDFFORM_AVAILABLE
        /\ "text" \in Range(ran) <=>
               \A m \in Structured : out[m] = <<>>

\* C8 witness: PyPDF2 failed and PyMuPDF, pdfform and the fallback ran after
\* it.
C8_Witness ==
    /\ Returned
    /\ "pypdf2" \in failed
    /\ ran = MethodOrder

\* no reader can open the document
Unreadable ==
    /\ fault.pypdf2 = <<0>>
    /\ fault.mupdf = <<0>>
    /\ PDFFORM_AVAILABLE => fault.pdfform
    /\ fault.pdfplumber

\* C9: for a document no reader can open, what the caller gets differs from
\* the valid outcome "no fields found" (an empty list returned).
C9_UnreadableIsDistinguishable ==
    (pc = "done" /\ Unreadable) =>
        <<outcome, unique_fields>> # <<"returned", <<>>>>

\* C10: extract_pdf_form_fields never raises to its caller, and for a
\* document no reader can open it returns the empty list.
C10_NeverRaises ==
    /\ outcome # "raised"
    /\ pc = "done" => outcome = "returned"
    /\ (pc = "done" /\ Unreadable) => unique_fields = <<>>

\* C10 witness: every reader failed, the fallback's exception was caught and
\* the call returned.
C10_Witness ==
    /\ Returned
    /\ Unreadable
    /\ exc = "caught"
    /\ failed = Range(ran)

\* C11: on every exit path the unlink of pdf_path is attempted exactly once,
\* after the last extraction method and before the function returns.
C11_UnlinkOnce ==
    /\ pc \in {"pypdf2", "mupdf", "pdfform", "fallback", "cleanup"}
           => unlinkAttempts = 0
    /\ pc \in {"dedup", "done"} => unlinkAttempts = 1

\* C11 witness: the fallback raised, and the call ended after one unlink.
C11_Witness ==
    /\ pc = "done"
    /\ exc = "caught"
    /\ unlinkAttempts = 1

\* the first descriptor of every pair of c, in order
FirstOccurrences(c) ==
    LET S == FirstOfPair(c)
    IN  [k \in 1..Cardinality(S) |-> c[Kth(S, k)]]

\* C12: a failing unlink is not propagated; the call returns the list it
\* returns when the deletion succeeds (the deduplicated method outputs).
C12_UnlinkFailureSwallowed ==
    (pc = "done" /\ fault.unlink) =>
        /\ outcome = "returned"
        /\ fileExists
        /\ unique_fields = FirstOccurrences(Concatenation)

\* C12 witness: the unlink failed and descriptors were returned.
C12_Witness ==
    /\ Returned
    /\ fault.unlink
    /\ fileExists
    /\ unique_fields # <<>>

MergedStructured == out["pypdf2"] \o out["mupdf"] \o out["pdfform"]

\* C13: the text fallback runs iff the list merged from PyPDF2, PyMuPDF and
\* pdfform is empty; when one of them contributed, no fallback descriptor is
\* in the output.
C13_FallbackIffEmpty ==
    pc \in {"cleanup", "dedup", "done"} =>
        /\ "text" \in Range(ran) <=> MergedStructured = <<>>
        /\ MergedStructured # <<>> =>
               /\ fields = MergedStructured
               /\ Range(unique_fields) \subseteq Range(MergedStructured)

\* C13 witness: a structured method contributed, the page text holds label
\* phrases, and the call returned without running the fallback.
C13_Witness ==
    /\ Returned
    /\ MergedStructured # <<>>
    /\ parse_pdf_text_for_fields(doc.text) # <<>>
    /\ "text" \notin Range(ran)

\* C14: PyMuPDF is invoked on every call, whatever PyPDF2 did, and its
\* descriptors are appended to the merged list after those of PyPDF2.
C14_MupdfAlwaysRuns ==
    pc \notin {"pypdf2", "mupdf"} =>
        /\ "mupdf" \in Range(ran)
        /\ LET both == out["pypdf2"] \o out["mupdf"]
           IN  /\ Len(fields) >= Len(both)
               /\ SubSeq(fields, 1, Len(both)) = both

\* C14 witness: PyPDF2 returned fields and PyMuPDF added a descriptor that
\* PyPDF2 did not return.
C14_Witness ==
    /\ Returned
    /\ out["pypdf2"] # <<>>
    /\ \E d \in Range(out["mupdf"]) :
           d \in Range(unique_fields) /\ d \notin Range(out["pypdf2"])

\* a form dictionary PyPDF2 reads to the end, in a document whose fields all
\* carry a name of their own
WellFormed ==
    /\ doc.acroForm = "fields"
    /\ fault.pypdf2 = <<>>
    /\ \A i \in 1..Len(doc.form) : doc.form[i].T # <<>>
    /\ \A i, j \in 1..Len(doc.form) : i # j => doc.form[i].T # doc.form[j].T

RequiredBitSet(f) == f.Ff \in {<<2>>, <<3>>}

ExpectedPypdf2Type(kind) ==
    CASE kind \in {"listbox", "combobox"} -> "select"
      [] kind \in {"checkbox", "radio", "pushbutton"} -> "checkbox"
      [] kind = "signature" -> "signature"
      [] OTHER -> "text"

\* C16: PyPDF2 maps /Tx to text, /Ch to select, /Btn to checkbox, /Sig to
\* signature and a missing type to text, and the form (ssn, /Tx, flags 2),
\* (signature, /Sig, no flags) gives exactly [(ssn, text, required),
\* (signature, signature, not required)].
C16_MappingAndScenario ==
    (Returned /\ doc.acroForm = "fields" /\ fault = NoFaults) =>
        /\ \A i \in 1..Len(out["pypdf2"]) :
               out["pypdf2"][i].type
                   = ExpectedPypdf2Type(DictFields(doc.form)[i].kind)
        /\ doc.form = <<SsnField, SignatureField>> =>
               unique_fields = <<Desc("ssn", "text", TRUE),
                                 Desc("signature", "signature", FALSE)>>

TypeTags == {"text", "select", "checkbox", "radio", "signature", "button",
             "date", "email", "tel", "unknown"}

\* C18: every descriptor, from whichever method, has a type of the fixed tag
\* set and a boolean required value.
C18_TagsAndBooleans ==
    \A d \in Range(fields) \cup Range(unique_fields) :
        d.type \in TypeTags /\ d.required \in BOOLEAN

\* C18 witness: a returned list holds a push-button descriptor and a
\* descriptor of another type.
C18_Witness ==
    /\ Returned
    /\ \E d, e \in Range(unique_fields) : d.type = "button" /\ e.type # "button"

\* C19: for a document with no form dictionary and no widgets, PyPDF2
\* returns an empty list without error, nothing is merged from the
\* structured methods, and the text fallback runs.
C19_NoFormRunsFallback ==
    (/\ pc \in {"cleanup", "dedup", "done"}
     /\ doc.acroForm = "absent"
     /\ Widgets(doc.form) = <<>>) =>
        /\ out["pypdf2"] = <<>>
        /\ fault.pypdf2 = <<>> => "pypdf2" \notin failed
        /\ MergedStructured = <<>>
        /\ "text" \in Range(ran)

\* C19 witness: a flat document went through the fallback and descriptors
\* from its text were returned.
C19_Witness ==
    /\ Returned
    /\ doc.acroForm = "absent"
    /\ Widgets(doc.form) = <<>>
    /\ TextParsed
    /\ unique_fields # <<>>

\* ------------------------------------------------------------------------
\* process_form_detail_page
\* ------------------------------------------------------------------------
\* the PDF behind a link cannot be downloaded, or no reader can read it
PdfFails(u) == u.download # "ok" \/ u.fault = Corrupted(PDFFORM_AVAILABLE)

\* the PDF has form fields or labelled text to extract
Extractable(u) == u.doc.form # <<>> \/ u.doc.text # <<>>

ResultFields == [i \in 1..Len(results) |-> results[i].fields]

TempFilesOnDisk ==
    leftover + (IF ppc = "extracting" /\ fileExists THEN 1 ELSE 0)

\* the PDFs before pdf_url whose temporary file could not be deleted
FailedDeletions ==
    Cardinality({i \in 1..Len(results) :
                    /\ page.pdf_urls[i].download = "ok"
                    /\ page.pdf_urls[i].fault.unlink})

\* C20 as stated: at most one downloaded temporary PDF exists at any moment.
C20_AtMostOneTempFile == TempFilesOnDisk <= 1

\* C20, amended: PDFs are processed strictly one at a time.  While PDF i
\* is downloaded or extracted, every earlier link has been handled to the
\* end, with exactly one deletion attempt for each downloaded file; no
\* extraction is in progress between two links; and the temporary PDFs on
\* disk are at most one more than the earlier deletions that failed.
C20_OneAtATime ==
    /\ ppc \in {"loop", "extracting"} => Len(results) = idx - 1
    /\ ppc \in {"start", "loop", "returned"} => pc = "idle"
    /\ \A i \in 1..Len(results) :
           results[i].unlinks = (IF results[i].downloaded THEN 1 ELSE 0)
    /\ TempFilesOnDisk <= 1 + FailedDeletions
    /\ FailedDeletions = 0 => C20_AtMostOneTempFile

\* the second PDF is being extracted while the file of the first, whose
\* deletion failed, is still on disk
C20_Witness ==
    /\ ppc = "extracting"
    /\ idx = 2
    /\ results[1].downloaded
    /\ results[1].unlinks = 1
    /\ TempFilesOnDisk = 2

\* ========================================================================
\* summarize_va_forms.py: the processing loop over va_forms.json
\* ========================================================================
\* the state of everything but summarize_va_forms.py
besidesSummarize == <<scraperVars, clearVars, fetchVars, uploadVars>>

\* the scraper is not running
NoScraper ==
    /\ NoPage
    /\ doc = NoDoc
    /\ PDFFORM_AVAILABLE = FALSE
    /\ fault = NoFaults
    /\ pc = "idle"
    /\ Locals

\* bool(start_id): None and the empty string are falsy
Truthy(opt) == opt # <<>> /\ opt[1] # ""

\* url.lower().endswith('.pdf'), on the extension of the url
LowerExt(ext) == IF ext = "PDF" THEN "pdf" ELSE ext
IsPdfUrl(ext) == LowerExt(ext) = "pdf"

\* SUMMARIES_DIR / f"{form_name}.txt" and f"{form_name}_raw.txt"
SummaryFile(form_name) == form_name \o ".txt"
RawFile(form_name) == form_name \o "_raw.txt"

\* Path.exists() and open(name, 'w') on the summaries directory
Exists(fs, name) == \E f \in fs : f.name = name
Written(fs, name, content) ==
    {f \in fs : f.name # name} \cup {[name |-> name, content |-> content]}

\* entries of va_forms.json: ids and form names repeat, urls need not be PDFs
EntryPool ==
    {[id |-> "a", form_name |-> "F1", ext |-> "pdf"],
     [id |-> "a", form_name |-> "F2", ext |-> "PDF"],
     [id |-> "b", form_name |-> "F1", ext |-> "pdf"],
     [id |-> "b", form_name |-> "F2", ext |-> "pdf"],
     [id |-> "b", form_name |-> "F1", ext |-> "html"]}

\* --start-id absent, empty, or an id
StartIds == {<<>>, <<"">>, <<"a">>, <<"b">>}

InitSummarize ==
    /\ NoScraper
    /\ NoClear
    /\ NoFetch
    /\ NoUpload
    /\ va_forms \in SeqsUpTo(EntryPool, MaxEntries)
    /\ start_id \in StartIds
    /\ skip = Truthy(start_id)
    /\ entry_no = 1
    /\ spc = "head"
    /\ run = "first"
    /\ files = {}
    /\ temps = 0
    /\ pdf_path = <<>>
    /\ considered = {}
    /\ last = [entry |-> 0]
    /\ snapshot = {}

entry == va_forms[entry_no]

\* what the script has done for the entry it has just reached
Arrival(existed) ==
    [entry |-> entry_no, existed |-> existed, downloads |-> 0, llm |-> 0,
     writes |-> 0]

AtEntry == spc = "head" /\ entry_no <= Len(va_forms)

\* variant: the entry with the start id is itself processed
ResumeSkipInclusive ==
    /\ AtEntry
    /\ skip
    /\ skip' = (entry.id # start_id[1])
    /\ entry_no' = IF entry.id = start_id[1] THEN entry_no ELSE entry_no + 1
    /\ UNCHANGED <<va_forms, start_id, spc, run, files, temps, pdf_path,
                   considered, last, snapshot, besidesSummarize>>

\* if skip: ... continue
ResumeSkip ==
    /\ AtEntry
    /\ skip
    /\ skip' = (entry.id # start_id[1])
    /\ entry_no' = entry_no + 1
    /\ UNCHANGED <<va_forms, start_id, spc, run, files, temps, pdf_path,
                   considered, last, snapshot, besidesSummarize>>

\* the url is not a PDF: continue
NotPdfSkip ==
    /\ AtEntry
    /\ ~skip
    /\ ~IsPdfUrl(entry.ext)
    /\ considered' = considered \cup {entry_no}
    /\ entry_no' = entry_no + 1
    /\ UNCHANGED <<va_forms, start_id, skip, spc, run, files, temps, pdf_path,
                   last, snapshot, besidesSummarize>>

\* the summary file exists: continue
ExistsSkip ==
    /\ AtEntry
    /\ ~skip
    /\ IsPdfUrl(entry.ext)
    /\ Exists(files, SummaryFile(entry.form_name))
    /\ considered' = considered \cup {entry_no}
    /\ last' = Arrival(TRUE)
    /\ entry_no' = entry_no + 1
    /\ UNCHANGED <<va_forms, start_id, skip, spc, run, files, temps, pdf_path,
                   snapshot, besidesSummarize>>

\* variant: the entry is processed whether or not its summary exists
BeginAlways ==
    /\ AtEntry
    /\ ~skip
    /\ IsPdfUrl(entry.ext)
    /\ considered' = considered \cup {entry_no}
    /\ last' = Arrival(FALSE)
    /\ pdf_path' = <<>>
    /\ spc' = "download"
    /\ UNCHANGED <<va_forms, start_id, skip, entry_no, run, files, temps,
                   snapshot, besidesSummarize>>

\* the entry is processed: pdf_path = None, then the download
Begin ==
    /\ AtEntry
    /\ ~skip
    /\ IsPdfUrl(entry.ext)
    /\ ~Exists(files, SummaryFile(entry.form_name))
    /\ considered' = considered \cup {entry_no}
    /\ last' = Arrival(FALSE)
    /\ pdf_path' = <<>>
    /\ spc' = "download"
    /\ UNCHANGED <<va_forms, start_id, skip, entry_no, run, files, temps,
                   snapshot, besidesSummarize>>

\* requests.get and the copy of the body into a temporary file; a failure
\* of the request or of the stream is logged and the entry is left
Download(o) ==
    /\ spc = "download"
    /\ last' = [last EXCEPT !.downloads = @ + 1]
    /\ temps' = IF o = "request fails" THEN temps ELSE temps + 1
    /\ pdf_path' = IF o = "ok" THEN <<"tmp">> ELSE <<>>
    /\ IF o = "ok"
       THEN spc' = "summarize" /\ UNCHANGED entry_no
       ELSE spc' = "head" /\ entry_no' = entry_no + 1
    /\ UNCHANGED <<va_forms, start_id, skip, run, files, considered, snapshot,
                   besidesSummarize>>

DownloadOutcomes == {"ok", "request fails", "stream fails"}

SummaryContent ==
    [kind |-> "summary", form_name |-> entry.form_name, run |-> run,
     entry |-> entry_no]

\* the try block: text, fields, the two LLM calls, the two saves
Summarize(o) ==
    /\ spc = "summarize"
    /\ last' = [last EXCEPT
                   !.llm = IF o = "no text" THEN 0
                           ELSE IF o = "llm fails" THEN 1 ELSE 2,
                   !.writes = IF o \in {"no text", "llm fails"} THEN 0
                              ELSE IF o = "ok" THEN 2 ELSE 1]
    /\ files' =
          IF o \in {"no text", "llm fails"} THEN files
          ELSE IF o = "summary write fails"
          THEN Written(files, SummaryFile(entry.form_name),
                       [SummaryContent EXCEPT !.kind = "partial"])
          ELSE IF o = "raw open fails"
          THEN Written(files, SummaryFile(entry.form_name), SummaryContent)
          ELSE Written(Written(files, SummaryFile(entry.form_name),
                               SummaryContent),
                       RawFile(entry.form_name),
                       [SummaryContent EXCEPT !.kind = "raw"])
    /\ spc' = "finally"
    /\ UNCHANGED <<va_forms, start_id, skip, entry_no, run, temps, pdf_path,
                   considered, snapshot, besidesSummarize>>

SummarizeOutcomes ==
    {"ok", "no text", "llm fails", "summary write fails", "raw open fails"}

\* finally: os.unlink(pdf_path), its failure swallowed
Finally(unlinked) ==
    /\ spc = "finally"
    /\ temps' = IF pdf_path # <<>> /\ unlinked THEN temps - 1 ELSE temps
    /\ entry_no' = entry_no + 1
    /\ spc' = "head"
    /\ UNCHANGED <<va_forms, start_id, skip, run, files, pdf_path, considered,
                   last, snapshot, besidesSummarize>>

\* the loop is over
EndOfLoop ==
    /\ spc = "head"
    /\ entry_no > Len(va_forms)
    /\ spc' = "end"
    /\ UNCHANGED <<va_forms, start_id, skip, entry_no, run, files, temps,
                   pdf_path, considered, last, snapshot, besidesSummarize>>

\* the script is started again with the same arguments and va_forms.json
SecondRun ==
    /\ spc = "end"
    /\ run = "first"
    /\ run' = "second"
    /\ snapshot' = files
    /\ skip' = Truthy(start_id)
    /\ entry_no' = 1
    /\ spc' = "head"
    /\ pdf_path' = <<>>
    /\ considered' = {}
    /\ last' = [entry |-> 0]
    /\ UNCHANGED <<va_forms, start_id, files, temps, besidesSummarize>>

NextSummarize ==
    \/ ResumeSkip
    \/ NotPdfSkip
    \/ ExistsSkip
    \/ Begin
    \/ \E o \in DownloadOutcomes : Download(o)
    \/ \E o \in SummarizeOutcomes : Summarize(o)
    \/ \E unlinked \in BOOLEAN : Finally(unlinked)
    \/ EndOfLoop
    \/ SecondRun

SpecSummarize == InitSummarize /\ [][NextSummarize]_vars

\* ------------------------------------------------------------------------
\* Properties of summarize_va_forms.py
\* ------------------------------------------------------------------------
Entries == 1..Len(va_forms)

\* the entries after the first entry whose id is x; none if no entry has it
AfterFirst(x) ==
    LET hits == {i \in Entries : va_forms[i].id = x}
        first == CHOOSE h \in hits : \A g \in hits : h <= g
    IN  IF hits = {} THEN {} ELSE {i \in Entries : i > first}

\* C21 as stated: with --start-id X the entries considered are exactly those
\* after the first entry with id X (none if there is no such entry); without
\* --start-id every entry is considered.
C21_ResumeAfterStartId ==
    spc = "end" =>
        considered = (IF start_id = <<>> THEN Entries
                      ELSE AfterFirst(start_id[1]))

\* C21, amended: the rule holds for a non-empty X; an empty X is as no
\* --start-id at all, every entry is considered.
C21_ResumeAfterNonEmptyStartId ==
    spc = "end" =>
        considered = (IF start_id = <<>> \/ start_id = <<"">> THEN Entries
                      ELSE AfterFirst(start_id[1]))

\* two entries, the first has the start id: only the second was considered
C21_Witness ==
    /\ spc = "end"
    /\ start_id = <<"a">>
    /\ Len(va_forms) = 2
    /\ va_forms[1].id = "a"
    /\ considered = {2}

\* the script is at a PDF entry whose summary file exists
AtSummarized ==
    /\ AtEntry
    /\ ~skip
    /\ IsPdfUrl(entry.ext)
    /\ Exists(files, SummaryFile(entry.form_name))

IsSummary(f) == f.content.kind \in {"summary", "partial"}

C26_TempDeletedBeforeNextEntry == spc = "head" => temps = 0

\* C28: after the loop every form with a summary file has a raw-text file.
C28_SummaryHasRawText ==
    spc = "end" =>
        \A f \in files :
            IsSummary(f) => Exists(files, RawFile(f.content.form_name))

\* ========================================================================
\* clear_upstash_cache.py: main
\* ========================================================================
besidesClear == <<scraperVars, summarizeVars, fetchVars, uploadVars>>

\* keys as the cache stores them
KeyPool == {"form", "form/21", "form%2F21", "form 21"}

\* urllib.parse.quote(k, safe=""): "/", "%" and " " are escaped
Quote(k) ==
    CASE k = "form/21" -> "form%2F21"
      [] k = "form%2F21" -> "form%252F21"
      [] k = "form 21" -> "form%2021"
      [] OTHER -> k

\* the key the server reads from the path of a DEL request
Unquote(path) ==
    CASE path = "form%2F21" -> "form/21"
      [] path = "form%252F21" -> "form%2F21"
      [] path = "form%2021" -> "form 21"
      [] OTHER -> path

\* the orders in which KEYS * can list a set of keys
Listings(S) ==
    {q \in [1..Cardinality(S) -> S] :
        \A i, j \in 1..Cardinality(S) : q[i] = q[j] => i = j}

InitClear ==
    /\ NoScraper
    /\ NoSummarize
    /\ NoFetch
    /\ NoUpload
    /\ cache \in {S \in SUBSET KeyPool : Cardinality(S) <= MaxKeys}
    /\ configured \in BOOLEAN
    /\ fetched = FALSE
    /\ keys = <<>>
    /\ key_no = 0
    /\ cpc = "start"
    /\ dels = <<>>

\* the environment test, the KEYS request, "if not keys: return"
FetchKeys(ok) ==
    /\ cpc = "start"
    /\ IF ~configured \/ ~ok
       THEN /\ cpc' = "done"
            /\ UNCHANGED <<fetched, keys, key_no>>
       ELSE \E listing \in Listings(cache) :
                /\ fetched' = TRUE
                /\ keys' = listing
                /\ key_no' = 1
                /\ cpc' = IF listing = <<>> THEN "done" ELSE "loop"
    /\ UNCHANGED <<cache, configured, dels, besidesClear>>

\* variant: a failed DEL request ends the loop
DeleteKeyOrStop(ok) ==
    /\ cpc = "loop"
    /\ key_no <= Len(keys)
    /\ dels' = Append(dels, [key |-> keys[key_no],
                             path |-> Quote(keys[key_no]), ok |-> ok])
    /\ cache' = IF ok THEN cache \ {Unquote(Quote(keys[key_no]))} ELSE cache
    /\ key_no' = IF ok THEN key_no + 1 ELSE Len(keys) + 1
    /\ UNCHANGED <<configured, fetched, keys, cpc, besidesClear>>

\* one pass of "for k in keys": the DEL request, its failure printed
DeleteKey(ok) ==
    /\ cpc = "loop"
    /\ key_no <= Len(keys)
    /\ dels' = Append(dels, [key |-> keys[key_no],
                             path |-> Quote(keys[key_no]), ok |-> ok])
    /\ cache' = IF ok THEN cache \ {Unquote(Quote(keys[key_no]))} ELSE cache
    /\ key_no' = key_no + 1
    /\ UNCHANGED <<configured, fetched, keys, cpc, besidesClear>>

\* "Cache clear complete."
ClearComplete ==
    /\ cpc = "loop"
    /\ key_no > Len(keys)
    /\ cpc' = "done"
    /\ UNCHANGED <<cache, configured, fetched, keys, key_no, dels,
                   besidesClear>>

NextClear ==
    \/ \E ok \in BOOLEAN : FetchKeys(ok)
    \/ \E ok \in BOOLEAN : DeleteKey(ok)
    \/ ClearComplete

SpecClear == InitClear /\ [][NextClear]_vars

\* ------------------------------------------------------------------------
\* Properties of clear_upstash_cache.main
\* ------------------------------------------------------------------------
\* C23: when the KEYS request succeeds (and nobody else writes), at the end
\* one DEL request has been issued for every key returned, in the order
\* returned and whatever the outcome of the DEL requests before it, and the
\* cache is empty if every DEL succeeded.
C23_OneDelPerKey ==
    /\ (fetched /\ cpc = "loop") =>
           /\ Len(dels) = key_no - 1
           /\ \A i \in 1..Len(dels) : dels[i].key = keys[i]
    /\ (fetched /\ cpc = "done") =>
           /\ Len(dels) = Len(keys)
           /\ \A i \in 1..Len(dels) : dels[i].key = keys[i]
           /\ \A k \in Range(keys) :
                  Cardinality({i \in 1..Len(dels) : dels[i].key = k}) = 1
           /\ (\A i \in 1..Len(dels) : dels[i].ok) => cache = {}
           /\ cache = {dels[i].key : i \in {j \in 1..Len(dels) : ~dels[j].ok}}

\* a failed DEL was followed by a successful one; only the first key is left
C23_Witness ==
    /\ fetched
    /\ cpc = "done"
    /\ Len(keys) >= 2
    /\ ~dels[1].ok
    /\ dels[2].ok
    /\ dels[1].key \in cache
    /\ dels[2].key \notin cache

\* ========================================================================
\* va_forms_api_scraper.py: fetch_all_forms
\* ========================================================================
besidesFetch == <<scraperVars, summarizeVars, clearVars, uploadVars>>

per_page == 100

\* the forms of one page of the API
FormsOf(p, n) == [i \in 1..n |-> <<p, i>>]

\* what a request for page p can give: an error (of the request, of the
\* status, of the JSON), or an object with a list of forms and possibly a
\* page count under meta
Responses(p) ==
    {[error |-> TRUE, forms |-> <<>>, total_pages |-> <<>>]}
    \cup {[error |-> FALSE, forms |-> FormsOf(p, n), total_pages |-> t] :
              n \in {0, 1, per_page}, t \in {<<>>, <<0>>, <<1>>, <<2>>}}

InitFetch ==
    /\ NoScraper
    /\ NoSummarize
    /\ NoClear
    /\ NoUpload
    /\ page_no = 1
    /\ all_forms = <<>>
    /\ fpc = "loop"
    /\ fetches = <<>>

\* "if total_pages:" a page count of 0 is as none
Reported(t) == t # <<>> /\ t[1] # 0

\* the tests after all_forms.extend(forms)
LastPage(p, r) ==
    IF Reported(r.total_pages) THEN p >= r.total_pages[1]
    ELSE Len(r.forms) < per_page

\* variant: a request error discards the forms fetched so far
FetchPageOrNothing(r) ==
    /\ fpc = "loop"
    /\ page_no <= MaxPages
    /\ fetches' = Append(fetches, [page |-> page_no, response |-> r])
    /\ IF r.error \/ r.forms = <<>>
       THEN /\ fpc' = "returned"
            /\ all_forms' = IF r.error THEN <<>> ELSE all_forms
            /\ UNCHANGED page_no
       ELSE /\ all_forms' = all_forms \o r.forms
            /\ IF LastPage(page_no, r)
               THEN fpc' = "returned" /\ UNCHANGED page_no
               ELSE fpc' = "loop" /\ page_no' = page_no + 1
    /\ UNCHANGED besidesFetch

\* one pass of the while loop
FetchPage(r) ==
    /\ fpc = "loop"
    /\ page_no <= MaxPages
    /\ fetches' = Append(fetches, [page |-> page_no, response |-> r])
    /\ IF r.error \/ r.forms = <<>>
       THEN /\ fpc' = "returned"
            /\ UNCHANGED <<all_forms, page_no>>
       ELSE /\ all_forms' = all_forms \o r.forms
            /\ IF LastPage(page_no, r)
               THEN fpc' = "returned" /\ UNCHANGED page_no
               ELSE fpc' = "loop" /\ page_no' = page_no + 1
    /\ UNCHANGED besidesFetch

NextFetch == \E r \in Responses(page_no) : FetchPage(r)

SpecFetch == InitFetch /\ [][NextFetch]_vars

\* ------------------------------------------------------------------------
\* Properties of fetch_all_forms
\* ------------------------------------------------------------------------
\* the request for page p, answered by r, is the last one: total_pages
\* counts as reported whenever the answer carries it
StopsAsStated(p, r) ==
    \/ r.error
    \/ r.forms = <<>>
    \/ r.total_pages # <<>> /\ p >= r.total_pages[1]
    \/ r.total_pages = <<>> /\ Len(r.forms) < per_page

\* the same with a total_pages of 0 counted as not reported
Stops(p, r) ==
    \/ r.error
    \/ r.forms = <<>>
    \/ r.total_pages \notin {<<>>, <<0>>} /\ p >= r.total_pages[1]
    \/ r.total_pages \in {<<>>, <<0>>} /\ Len(r.forms) < per_page

FetchedForms == [i \in 1..Len(fetches) |-> fetches[i].response.forms]

\* C24 as stated: pages are requested in increasing order from page 1, each
\* once; all_forms holds the forms of every page fetched, in page order,
\* also after a request error; the loop stops at the first request error,
\* empty page, page number >= the reported total_pages, or page of fewer
\* than per_page forms when no total_pages is reported.
C24_StopsAtReportedTotal ==
    /\ \A i \in 1..Len(fetches) : fetches[i].page = i
    /\ all_forms = Flatten(FetchedForms)
    /\ \A i \in 1..Len(fetches) :
           StopsAsStated(i, fetches[i].response)
               <=> (fpc = "returned" /\ i = Len(fetches))

\* C24, amended: the same, where a reported total_pages of 0 is treated as
\* no total_pages reported (the loop then stops on a page of fewer than
\* per_page forms).
C24_PagesInOrderUntilStop ==
    /\ \A i \in 1..Len(fetches) : fetches[i].page = i
    /\ all_forms = Flatten(FetchedForms)
    /\ \A i \in 1..Len(fetches) :
           Stops(i, fetches[i].response)
               <=> (fpc = "returned" /\ i = Len(fetches))
    /\ fpc = "returned" => fetches # <<>>

\* the request for page 2 failed and the forms of page 1 were returned
C24_Witness ==
    /\ fpc = "returned"
    /\ Len(fetches) = 2
    /\ fetches[2].response.error
    /\ all_forms = FormsOf(1, per_page)

\* ========================================================================
\* The duplicate removal on names with underscores
\* ========================================================================
\* (variant: one method also produces a tag with an underscore in it)
MethodTypesWithUnderscore ==
    {"text", "select", "checkbox", "signature", "radio", "button", "date",
     "tel", "email", "text_text"}

\* the type tags of the four methods: the two type_mapping tables and their
\* default, pdfform's "text", the tags of field_patterns, checkbox_patterns
MethodTypes ==
    {"text", "select", "checkbox", "signature", "radio", "button", "date",
     "tel", "email"}

\* field names, some ending in what looks like a separator and a type tag
KeyNames == {"", "a", "a_text", "a_text_text"}

KeyDescs == {Desc(n, t, FALSE) : n \in KeyNames, t \in MethodTypes}

\* the loop over fields is entered with any list of such descriptors
InitKey ==
    /\ NoPage
    /\ NoScripts
    /\ doc = NoDoc
    /\ PDFFORM_AVAILABLE = FALSE
    /\ fault = NoFaults
    /\ pc = "dedup"
    /\ fields \in SeqsUpTo(KeyDescs, MaxFields)
    /\ ran = <<>>
    /\ out = [m \in Methods |-> <<>>]
    /\ failed = {}
    /\ exc = "none"
    /\ fileExists = FALSE
    /\ unlinkAttempts = 1
    /\ unique_fields = <<>>
    /\ outcome = "running"

NextKey == DedupStep

SpecKey == InitKey /\ [][NextKey]_vars

\* C25: the key name_type is the same for two descriptors only if their
\* names are equal and their types are equal, so the duplicate removal
\* keeps every descriptor whose (name, type) pair differs from the pair of
\* every descriptor before it, and nothing else.
C25_KeyEqualOnlyForEqualPairs ==
    /\ \A i, j \in 1..Len(fields) :
           FieldKey(fields[i]) = FieldKey(fields[j])
               => SamePair(fields[i], fields[j])
    /\ Returned =>
           LET S == FirstOfPair(fields)
           IN  /\ Len(unique_fields) = Cardinality(S)
               /\ \A k \in 1..Len(unique_fields) :
                      unique_fields[k] = fields[Kth(S, k)]

\* two descriptors whose names differ by "_text" were both kept
C25_Witness ==
    /\ Returned
    /\ Len(fields) = 2
    /\ fields[1].name = "a_text"
    /\ fields[2].name = "a_text_text"
    /\ fields[1].type = "text"
    /\ unique_fields = fields

\* ========================================================================
\* va_forms.json: save_results writes it, three scripts read it;
\* upload_va_forms.py: main
\* ========================================================================
besidesUpload == <<scraperVars, summarizeVars, clearVars, fetchVars>>

\* JSON values: a list, an object, or no file at all
JsonList(items) == [kind |-> "list", items |-> items]
JsonObject(members) == [kind |-> "object", members |-> members]

\* json.load(f).get("data", []) as the three scripts call it
GetData(json) ==
    IF json.kind = "missing"
    THEN [error |-> "FileNotFoundError", value |-> <<>>]
    ELSE IF json.kind = "list"
    THEN [error |-> "AttributeError", value |-> <<>>]
    ELSE [error |-> "none",
          value |-> IF "data" \in DOMAIN json.members
                    THEN json.members["data"] ELSE <<>>]

\* the records process_form_detail_page returns
RecordPool ==
    {[form_name |-> "F1", url |-> "https://va.gov/f1", fields |-> <<>>],
     [form_name |-> "F2", url |-> "https://va.gov/f2",
      fields |-> <<Desc("ssn", "text", TRUE)>>]}

\* the entries the reading scripts expect under "data"
ItemPool ==
    {[id |-> "5333",
      attributes |-> [form_name |-> "F1", url |-> "https://va.gov/f1.pdf"]],
     [id |-> "7",
      attributes |-> [form_name |-> "F2", url |-> "https://va.gov/f2.pdf"]]}

\* va_forms.json as it lies in the directory before the scraper has run
FilesBefore ==
    {[kind |-> "missing"]}
    \cup {JsonObject([data |-> d]) : d \in SeqsUpTo(ItemPool, MaxEntries)}

InitUpload ==
    /\ NoScraper
    /\ NoSummarize
    /\ NoClear
    /\ NoFetch
    /\ forms_data \in SeqsUpTo(RecordPool, MaxEntries)
    /\ va_forms_json \in FilesBefore
    /\ saved = "no"
    /\ loaded = [c \in Readers |-> "not run"]
    /\ data = <<>>
    /\ item_no = 0
    /\ upc = "start"
    /\ tmp_files = 0
    /\ uploaded_ids = <<>>

NothingRead == \A c \in Readers : loaded[c] = "not run"

\* save_results: json.dump(self.forms_data, f), an IOError logged
SaveResults(ok) ==
    /\ saved = "no"
    /\ NothingRead
    /\ saved' = IF ok THEN "saved" ELSE "failed"
    /\ va_forms_json' = IF ok THEN JsonList(forms_data) ELSE va_forms_json
    /\ UNCHANGED <<forms_data, loaded, data, item_no, upc, tmp_files,
                   uploaded_ids, besidesUpload>>

\* summarize_va_forms.py and extract_5333.py load the file
Load(c) ==
    /\ c \in {"summarize_va_forms", "extract_5333"}
    /\ loaded[c] = "not run"
    /\ loaded' = [loaded EXCEPT ![c] = GetData(va_forms_json).error]
    /\ UNCHANGED <<forms_data, va_forms_json, saved, data, item_no, upc,
                   tmp_files, uploaded_ids, besidesUpload>>

\* upload_va_forms.main loads the file; an exception ends the script
UploadLoad ==
    /\ upc = "start"
    /\ loaded' = [loaded EXCEPT
                     !["upload_va_forms"] = GetData(va_forms_json).error]
    /\ data' = GetData(va_forms_json).value
    /\ IF GetData(va_forms_json).error = "none"
       THEN upc' = "loop" /\ item_no' = 1
       ELSE upc' = "raised" /\ UNCHANGED item_no
    /\ UNCHANGED <<forms_data, va_forms_json, saved, tmp_files, uploaded_ids,
                   besidesUpload>>

DownloadResults == {"path", "None"}
PostResults == {"ok with id", "ok without id", "not ok", "raises"}

\* one pass of "for item in data": download_pdf, then the upload
UploadItem(d, u) ==
    /\ upc = "loop"
    /\ item_no <= Len(data)
    /\ IF d = "None"
       THEN /\ item_no' = item_no + 1
            /\ UNCHANGED <<upc, tmp_files, uploaded_ids>>
       ELSE /\ tmp_files' = tmp_files + 1
            /\ IF u = "raises"
               THEN upc' = "raised" /\ UNCHANGED <<item_no, uploaded_ids>>
               ELSE /\ item_no' = item_no + 1
                    /\ uploaded_ids' =
                          IF u = "ok with id"
                          THEN Append(uploaded_ids, data[item_no].id)
                          ELSE uploaded_ids
                    /\ UNCHANGED upc
    /\ UNCHANGED <<forms_data, va_forms_json, saved, loaded, data,
                   besidesUpload>>

\* uploaded_file_ids.json is written and main returns
UploadEnd ==
    /\ upc = "loop"
    /\ item_no > Len(data)
    /\ upc' = "done"
    /\ UNCHANGED <<forms_data, va_forms_json, saved, loaded, data, item_no,
                   tmp_files, uploaded_ids, besidesUpload>>

NextUpload ==
    \/ \E ok \in BOOLEAN : SaveResults(ok)
    \/ \E c \in Readers : Load(c)
    \/ UploadLoad
    \/ \E d \in DownloadResults, u \in PostResults : UploadItem(d, u)
    \/ UploadEnd

SpecUpload == InitUpload /\ [][NextUpload]_vars

\* ------------------------------------------------------------------------
\* Properties of the scripts around va_forms.json
\* ------------------------------------------------------------------------
\* C27: every temporary file download_pdf created for upload_va_forms.main
\* is deleted before the script ends.
C27_TempFilesDeletedAtEnd ==
    upc \in {"done", "raised"} => tmp_files = 0

\* C29: the va_forms.json written by save_results is a valid input of the
\* scripts that read it: each of them loads it without an error.
C29_SavedFileLoads ==
    saved = "saved" =>
        \A c \in Readers : loaded[c] \in {"not run", "none"}

\* ------------------------------------------------------------------------
\* The record of process_form_detail_page, from the page alone
\* ------------------------------------------------------------------------
\* what extract_pdf_form_fields returns for the PDF behind a link: the
\* structured methods in order, the text fallback if they found nothing,
\* then the duplicate removal
PdfFieldsOf(u) ==
    LET structured ==
            extract_pdf_form_fields_pypdf2(u.doc, u.fault.pypdf2).fields
            \o extract_pdf_form_fields_mupdf(u.doc, u.fault.mupdf).fields
            \o (IF PDFFORM_AVAILABLE
                THEN extract_pdf_form_fields_pdfform(u.doc,
                                                     u.fault.pdfform).fields
                ELSE <<>>)
        all == IF structured # <<>> THEN structured
               ELSE IF u.fault.pdfplumber THEN <<>>
               ELSE parse_pdf_text_for_fields(u.doc.text)
    IN  IF u.download = "ok" THEN DedupLoop(all, {}, <<>>) ELSE <<>>

PdfFieldLists == [i \in 1..Len(page.pdf_urls) |-> PdfFieldsOf(page.pdf_urls[i])]

NoRepeatedPair(q) ==
    \A i, j \in 1..Len(q) : i < j => ~SamePair(q[i], q[j])

\* C30: the fields of the returned record are exactly the HTML form fields
\* followed by the deduplicated field list of each downloaded PDF in URL
\* order; (name, type) pairs are unique within each PDF's list, and nothing
\* is removed across the HTML form and the PDFs.
C30_NoDedupAcrossSources ==
    (ppc = "returned" /\ page.soup) =>
        /\ record.fields = page.html_fields \o Flatten(PdfFieldLists)
        /\ \A i \in 1..Len(PdfFieldLists) : NoRepeatedPair(PdfFieldLists[i])
        /\ Len(record.fields) =
               Len(page.html_fields) + Len(Flatten(PdfFieldLists))

\* the record holds the pair (ssn, text) three times: from the HTML form
\* and from each of two PDFs
C30_Witness ==
    /\ ppc = "returned"
    /\ page.soup
    /\ page.html_fields # <<>>
    /\ Len(page.pdf_urls) = 2
    /\ \A i \in 1..2 : \E k \in 1..Len(PdfFieldLists[i]) :
           SamePair(PdfFieldLists[i][k], page.html_fields[1])
    /\ Count(record.fields, LAMBDA f : SamePair(f, page.html_fields[1])) = 3

====
